---- MODULE Spec2Model ----
(***************************************************************************)
(* The AndroidFridaConfig component (src/unnamed/part_000): the host and   *)
(* target selection flow of the Android Frida interceptor UI.              *)
(*                                                                         *)
(* The component's observable fields are the variables.  Every public      *)
(* method, timer callback, promise continuation and reaction is one        *)
(* action.  MobX runs the autorun of componentDidMount synchronously at    *)
(* the end of every action that changed what it read, so every action of   *)
(* the mounted component ends with autorunReaction.                        *)
(*                                                                         *)
(* `last` is a history variable: the step that produced the state, the     *)
(* identifier it was about, what it saw (the listed state of the host      *)
(* concerned, or how the promise settled) and the calls it made to the     *)
(* injected services, in the order it made them.                           *)
(*                                                                         *)
(* The ExchangeRequestBreakpointCard component                             *)
(* (src/src/components/view/exchange-request-breakpoint-card.tsx) is the   *)
(* second part: its three change handlers over the in-progress breakpoint  *)
(* result, under the specification SpecCard.                               *)
(***************************************************************************)
EXTENDS Naturals, Sequences, FiniteSets, Bags, TLC

VARIABLES
    fridaHosts,          \* props.interceptor.metadata.hosts: id -> state, "absent" when not listed
    selectedHostId,      \* @observable selectedHostId
    fridaTargets,        \* @observable fridaTargets
    targetsOwner,        \* history: the host whose fetch response the targets held came from
    inProgressHostIds,   \* @observable inProgressHostIds (an array)
    inProgressTargetIds, \* @observable inProgressTargetIds (an array)
    searchInput,         \* @observable searchInput
    activations,         \* activateInterceptor promises not yet settled: a bag of the
                         \* identifiers their .finally callbacks captured
    fetches,             \* getDetailedInterceptorMetadata promises not yet settled (a bag of host ids)
    phase,               \* "constructed", "mounted" or "unmounted"
    last,                \* history: the step that produced this state
    inProgressResult,    \* exchange.requestBreakpoint.inProgressResult: method, url, headers
    edit                 \* history: the last edit of the card and the snapshots it passed to onChange

fridaVars == <<fridaHosts, selectedHostId, fridaTargets, targetsOwner, inProgressHostIds,
               inProgressTargetIds, searchInput, activations, fetches, phase, last>>

cardVars == <<inProgressResult, edit>>

vars == <<fridaVars, cardVars>>

----------------------------------------------------------------------------
(* Bounds *)

\* Most service calls (activateInterceptor and getDetailedInterceptorMetadata
\* promises) in flight at once.
MaxPending == 2

\* Most header lines in an edited header list.
MaxHeaders == 2

----------------------------------------------------------------------------
(* Values *)

None == "none"

HostIds == {"A", "B"}

Absent == "absent"

HostStates == {"available", "unavailable", "launch-required", "setup-required"}

HostLists == [HostIds -> HostStates \cup {Absent}]

T1 == [id |-> "t1", name |-> <<"A", "b">>]

T2 == [id |-> "t2", name |-> <<"c">>]

TargetIds == {"t1", "t2"}

TargetLists == {<<>>, <<T1, T2>>}

\* What getDetailedInterceptorMetadata may resolve to: { targets } or undefined.
Undefined == [defined |-> FALSE, targets |-> <<>>]

Results == {[defined |-> TRUE, targets |-> l] : l \in TargetLists} \cup {Undefined}

SearchInputs == {<<>>, <<"a", "B">>}

Range(s) == {s[i] : i \in 1..Len(s)}

Count(x, s) == Cardinality({i \in 1..Len(s) : s[i] = x})

----------------------------------------------------------------------------
(* The component's fields as one record, which the methods transform.      *)
(* calls: the service calls the running handler has made so far.           *)

This ==
    [selectedHostId      |-> selectedHostId,
     fridaTargets        |-> fridaTargets,
     targetsOwner        |-> targetsOwner,
     inProgressHostIds   |-> inProgressHostIds,
     inProgressTargetIds |-> inProgressTargetIds,
     searchInput         |-> searchInput,
     activations         |-> activations,
     fetches             |-> fetches,
     calls               |-> <<>>]

\* The options object passed to activateInterceptor.
Request(action, hostId, targetId) ==
    [action |-> action, hostId |-> hostId, targetId |-> targetId]

\* What a pending activation's .finally callback captured: hostId or targetId.
Pending(kind, id) == [kind |-> kind, id |-> id]

\* A call of props.activateInterceptor. marked: whether the identifier was in
\* its in-progress array when the call was made.
Activate(request, marked) == [call |-> "activate", request |-> request, marked |-> marked]

\* A call of getDetailedInterceptorMetadata("android-frida", hostId).
Fetch(hostId) == [call |-> "fetch", hostId |-> hostId]

\* Mutant of SelectedHost: the getter without its state !== 'unavailable' test.
SelectedHostAnyState(hostId, hosts) ==
    IF hostId = None THEN None
    ELSE IF hosts[hostId] # Absent THEN hostId
    ELSE None

\* get selectedHost(): the id of the host found, None for undefined.
SelectedHost(hostId, hosts) ==
    IF hostId = None THEN None
    ELSE IF hosts[hostId] # Absent /\ hosts[hostId] # "unavailable" THEN hostId
    ELSE None

\* Mutant of updateTargets: without a selected host it returns at once,
\* leaving the target list as it was.
updateTargetsKeep(c, hosts) ==
    LET host == SelectedHost(c.selectedHostId, hosts)
    IN  IF host = None
        THEN c
        ELSE [c EXCEPT !.fetches = @ (+) SetToBag({host}),
                       !.calls = Append(@, Fetch(host))]

\* updateTargets, up to its yield.
updateTargets(c, hosts) ==
    LET host == SelectedHost(c.selectedHostId, hosts)
    IN  IF host = None
        THEN [c EXCEPT !.fridaTargets = <<>>, !.targetsOwner = None]
        ELSE [c EXCEPT !.fetches = @ (+) SetToBag({host}),
                       !.calls = Append(@, Fetch(host))]

\* updateTargets, from its yield on: fridaTargets = result?.targets ?? [].
applyResult(c, hostId, result) ==
    LET targets == IF result.defined THEN result.targets ELSE <<>>
    IN  [c EXCEPT !.fridaTargets = targets,
                  !.targetsOwner = IF targets = <<>> THEN None ELSE hostId]

\* Mutant of Pull: the completion empties the array (array.length = 0).
PullEverything(array, value) == <<>>

\* _.pull(array, value): removes every element equal to value.
Pull(array, value) == SelectSeq(array, LAMBDA x : x # value)

\* Mutant of activateHost: the request is issued before the id is pushed.
activateHostThenPush(c, action, hostId) ==
    LET called == [c EXCEPT !.activations = @ (+) SetToBag({Pending("host", hostId)}),
                            !.calls = Append(@, Activate(Request(action, hostId, None),
                                                         hostId \in Range(c.inProgressHostIds)))]
    IN  [called EXCEPT !.inProgressHostIds = Append(@, hostId)]

\* inProgressHostIds.push(hostId); activateInterceptor({ action, hostId })
activateHost(c, action, hostId) ==
    LET pushed == [c EXCEPT !.inProgressHostIds = Append(@, hostId)]
    IN  [pushed EXCEPT !.activations = @ (+) SetToBag({Pending("host", hostId)}),
                       !.calls = Append(@, Activate(Request(action, hostId, None),
                                                    hostId \in Range(pushed.inProgressHostIds)))]

selectHost(c, hosts, hostId) ==
    LET c1 == [c EXCEPT !.selectedHostId = hostId]
        host == SelectedHost(c1.selectedHostId, hosts)
        state == IF host = None THEN None ELSE hosts[host]
    IN  IF state = "available"
        THEN updateTargets([c1 EXCEPT !.searchInput = <<>>], hosts)
        ELSE IF state = "launch-required" THEN activateHost(c1, "launch", hostId)
        ELSE IF state = "setup-required" THEN activateHost(c1, "setup", hostId)
        ELSE c1

\* Mutant of deselectHost: leaving a host also forgets what is in progress.
deselectHostCancels(c) ==
    [c EXCEPT !.selectedHostId = None, !.inProgressHostIds = <<>>,
              !.inProgressTargetIds = <<>>, !.activations = EmptyBag]

deselectHost(c) == [c EXCEPT !.selectedHostId = None]

\* Mutant of interceptTarget: the `if (!host) return` guard is missing, so the
\* request goes out with whatever id is held.
interceptTargetUnguarded(c, hosts, targetId) ==
    LET pushed == [c EXCEPT !.inProgressTargetIds = Append(@, targetId)]
    IN  [pushed EXCEPT !.activations = @ (+) SetToBag({Pending("target", targetId)}),
                       !.calls = Append(@, Activate(Request("intercept", c.selectedHostId, targetId),
                                                    targetId \in Range(pushed.inProgressTargetIds)))]

interceptTarget(c, hosts, targetId) ==
    LET host == SelectedHost(c.selectedHostId, hosts)
    IN  IF host = None THEN c
        ELSE LET pushed == [c EXCEPT !.inProgressTargetIds = Append(@, targetId)]
             IN  [pushed EXCEPT !.activations = @ (+) SetToBag({Pending("target", targetId)}),
                                !.calls = Append(@, Activate(Request("intercept", host, targetId),
                                                             targetId \in Range(pushed.inProgressTargetIds)))]

\* Mutant of activationSettled: .then in place of .finally, so a rejection
\* skips the callback.
activationSettledThen(c, pending, outcome) ==
    IF outcome = "rejected" THEN c
    ELSE IF pending.kind = "target"
    THEN [c EXCEPT !.inProgressTargetIds = Pull(@, pending.id)]
    ELSE [c EXCEPT !.inProgressHostIds = Pull(@, pending.id)]

\* The .finally callback of an activation: runs however the promise settled.
activationSettled(c, pending, outcome) ==
    IF pending.kind = "target"
    THEN [c EXCEPT !.inProgressTargetIds = Pull(@, pending.id)]
    ELSE [c EXCEPT !.inProgressHostIds = Pull(@, pending.id)]

\* Mutant of autorunReaction: the reaction compares against a stale copy of
\* the list and so never finds the host missing.
autorunReactionStale(c, hosts) == c

\* The autorun of componentDidMount.
autorunReaction(c, hosts) ==
    IF c.selectedHostId # None /\ hosts[c.selectedHostId] = Absent
    THEN deselectHost(c)
    ELSE c

\* The reaction runs only between componentDidMount and the unmount.
React(c, hosts) == IF phase = "mounted" THEN autorunReaction(c, hosts) ELSE c

ListedHosts(hosts) == {h \in HostIds : hosts[h] # Absent}

\* Mutant of componentDidMount: the length test is `>= 1`, so a first host
\* that is 'available' is selected also when other hosts are listed.
componentDidMountAnyLength(c, hosts) ==
    LET listed == ListedHosts(hosts)
        first == CHOOSE h \in listed : \A g \in listed : hosts[g] = "available" => hosts[h] = "available"
        c1 == IF Cardinality(listed) >= 1 /\ hosts[first] = "available"
              THEN selectHost(c, hosts, first)
              ELSE c
    IN  updateTargets(autorunReaction(c1, hosts), hosts)

\* componentDidMount, which runs without suspending.
componentDidMount(c, hosts) ==
    LET listed == ListedHosts(hosts)
        only == CHOOSE h \in listed : TRUE
        c1 == IF Cardinality(listed) = 1 /\ hosts[only] = "available"
              THEN selectHost(c, hosts, only)
              ELSE c
    IN  updateTargets(autorunReaction(c1, hosts), hosts)

----------------------------------------------------------------------------
(* Steps *)

Step(op, id, seen, c) == [op |-> op, id |-> id, seen |-> seen, calls |-> c.calls]

\* The listed state of a host id, None for no id.
Listed(hostId, hosts) == IF hostId = None THEN None ELSE hosts[hostId]

Commit(c) ==
    /\ BagCardinality(c.activations) + BagCardinality(c.fetches) <= MaxPending
    /\ selectedHostId' = c.selectedHostId
    /\ fridaTargets' = c.fridaTargets
    /\ targetsOwner' = c.targetsOwner
    /\ inProgressHostIds' = c.inProgressHostIds
    /\ inProgressTargetIds' = c.inProgressTargetIds
    /\ searchInput' = c.searchInput
    /\ activations' = c.activations
    /\ fetches' = c.fetches
    /\ UNCHANGED cardVars

(* The breakpoint card *)

\* Method values: two of mockttp's Method names and one outside them.
Methods == {"GET", "POST", "PURGE"}

Urls == {"http://a/", "http://b/"}

HeaderLines == {<<"a", "1">>, <<"a", "2">>, <<"b", "1">>}

\* HeadersArray values: ordered [name, value] pairs, names may repeat.
HeadersArrays == UNION {[1..n -> HeaderLines] : n \in 0..MaxHeaders}

\* headersArrayToHeaders: the keyed representation, which keeps the order of
\* the lines and repeated names.
headersArrayToHeaders(headers) ==
    [i \in 1..Len(headers) |-> [name |-> headers[i][1], value |-> headers[i][2]]]

\* The breakpoint result the card starts from.
OriginalResult == [method |-> "GET", url |-> "http://a/", headers |-> headersArrayToHeaders(<<<<"a", "1">>>>)]

\* Object.assign({}, inProgressResult, fields): a copy with fields overwritten.
Assign(result, field, value) == [result EXCEPT ![field] = value]

\* Mutant of onMethodChanged: the `method === inProgressResult.method` return
\* is missing.
onMethodChangedAlways(result, method) == <<Assign(result, "method", method)>>

\* onMethodChanged: the snapshots it passes to props.onChange.
onMethodChanged(result, method) ==
    IF method = result.method THEN <<>>
    ELSE <<Assign(result, "method", method)>>

\* Mutant of onUrlChanged: the new object is built from the changed field
\* alone, Object.assign({}, { url }), so the other fields are lost.
onUrlChangedAlone(result, url) ==
    <<[method |-> None, url |-> url, headers |-> <<>>]>>

\* onUrlChanged: the snapshots it passes to props.onChange.
onUrlChanged(result, url) == <<Assign(result, "url", url)>>

\* onHeadersChanged: the snapshots it passes to props.onChange.
onHeadersChanged(result, headers) ==
    <<Assign(result, "headers", headersArrayToHeaders(headers))>>

\* props.onChange: the owning store takes each snapshot as the new
\* in-progress result.
onChange(result, snapshots) ==
    IF snapshots = <<>> THEN result ELSE snapshots[Len(snapshots)]

Edit(op, arg, snapshots) ==
    /\ inProgressResult' = onChange(inProgressResult, snapshots)
    /\ edit' = [op |-> op, arg |-> arg, emitted |-> snapshots]
    /\ UNCHANGED fridaVars

OnMethodChanged == \E method \in Methods : Edit("setMethod", method, onMethodChanged(inProgressResult, method))

OnUrlChanged == \E url \in Urls : Edit("setUrl", url, onUrlChanged(inProgressResult, url))

OnHeadersChanged ==
    \E headers \in HeadersArrays : Edit("setHeaders", headers, onHeadersChanged(inProgressResult, headers))

\* No edit of the card has happened.
CardInit ==
    /\ inProgressResult = OriginalResult
    /\ edit = [op |-> "none", arg |-> None, emitted |-> <<>>]

(* render: the targets shown *)

\* String.prototype.toLowerCase, on the letters that occur.
toLowerCase(string) ==
    [i \in 1..Len(string) |->
        CASE string[i] = "A" -> "a"
          [] string[i] = "B" -> "b"
          [] string[i] = "C" -> "c"
          [] OTHER -> string[i]]

\* String.prototype.includes: search occurs in string at some position.
includes(string, search) ==
    \E start \in 1..(Len(string) - Len(search) + 1) :
        SubSeq(string, start, start + Len(search) - 1) = search

\* Mutant of filteredTargets: the names are compared as they are written.
filteredTargetsAsWritten(targets, input) ==
    SelectSeq(targets, LAMBDA target : includes(target.name, toLowerCase(input)))

\* render: filteredTargets, the targets listed for the selected host.
filteredTargets(targets, input) ==
    LET lowercaseSearchInput == toLowerCase(input)
    IN  SelectSeq(targets, LAMBDA target : includes(toLowerCase(target.name), lowercaseSearchInput))

Init ==
    /\ CardInit
    /\ fridaHosts \in HostLists
    /\ selectedHostId = None
    /\ fridaTargets = <<>>
    /\ targetsOwner = None
    /\ inProgressHostIds = <<>>
    /\ inProgressTargetIds = <<>>
    /\ searchInput = <<>>
    /\ activations = EmptyBag
    /\ fetches = EmptyBag
    /\ phase = "constructed"
    /\ last = [op |-> "init", id |-> None, seen |-> None, calls |-> <<>>]

Mount ==
    /\ phase = "constructed"
    /\ LET c == componentDidMount(This, fridaHosts)
       IN  /\ Commit(c)
           /\ last' = Step("mount", None, None, c)
    /\ phase' = "mounted"
    /\ UNCHANGED fridaHosts

Unmount ==
    /\ phase = "mounted"
    /\ phase' = "unmounted"
    /\ last' = Step("unmount", None, None, This)
    /\ UNCHANGED <<fridaHosts, selectedHostId, fridaTargets, targetsOwner, inProgressHostIds,
                   inProgressTargetIds, searchInput, activations, fetches>>
    /\ UNCHANGED cardVars

\* The discovery service reports a new host list: one host's entry appears,
\* disappears or changes state (a list that differs in several entries is
\* reached by several updates, with the same reactions).
\* last.id: the host id held when the list arrived; last.seen: its new state.
DiscoveryUpdate ==
    /\ \E hostId \in HostIds, state \in HostStates \cup {Absent} :
        LET hosts == [fridaHosts EXCEPT ![hostId] = state] IN
        /\ hosts # fridaHosts
        /\ fridaHosts' = hosts
        /\ LET c == React(This, hosts)
           IN  /\ Commit(c)
               /\ last' = Step("discovery", selectedHostId, Listed(selectedHostId, hosts), c)
    /\ UNCHANGED phase

\* last.seen: the listed state of hostId.
SelectHost ==
    /\ phase = "mounted"
    /\ \E hostId \in HostIds :
        LET c == React(selectHost(This, fridaHosts, hostId), fridaHosts)
        IN  /\ Commit(c)
            /\ last' = Step("selectHost", hostId, fridaHosts[hostId], c)
    /\ UNCHANGED <<fridaHosts, phase>>

DeselectHost ==
    /\ phase = "mounted"
    /\ LET c == React(deselectHost(This), fridaHosts)
       IN  /\ Commit(c)
           /\ last' = Step("deselectHost", None, None, c)
    /\ UNCHANGED <<fridaHosts, phase>>

\* last.seen: the listed state of the host whose id is held.
InterceptTarget ==
    /\ phase = "mounted"
    /\ \E targetId \in TargetIds :
        LET c == React(interceptTarget(This, fridaHosts, targetId), fridaHosts)
        IN  /\ Commit(c)
            /\ last' = Step("interceptTarget", targetId, Listed(selectedHostId, fridaHosts), c)
    /\ UNCHANGED <<fridaHosts, phase>>

OnSearchChange ==
    /\ phase = "mounted"
    /\ \E value \in SearchInputs :
        /\ value # searchInput
        /\ LET c == React([This EXCEPT !.searchInput = value], fridaHosts)
           IN  /\ Commit(c)
               /\ last' = Step("searchChange", None, None, c)
    /\ UNCHANGED <<fridaHosts, phase>>

\* The setInterval callback.
PollTick ==
    /\ phase = "mounted"
    /\ LET c == React(updateTargets(This, fridaHosts), fridaHosts)
       IN  /\ Commit(c)
           /\ last' = Step("poll", None, None, c)
    /\ UNCHANGED <<fridaHosts, phase>>

\* A getDetailedInterceptorMetadata promise resolves: the flow resumes.
FetchResolved ==
    /\ \E hostId \in BagToSet(fetches), result \in Results :
        LET c0 == [This EXCEPT !.fetches = @ (-) SetToBag({hostId})]
            c == React(applyResult(c0, hostId, result), fridaHosts)
        IN  /\ Commit(c)
            /\ last' = Step("fetchDone", hostId,
                            IF result.defined THEN "resolved" ELSE "undefined", c)
    /\ UNCHANGED <<fridaHosts, phase>>

\* A getDetailedInterceptorMetadata promise rejects: the flow throws at its yield.
FetchRejected ==
    /\ \E hostId \in BagToSet(fetches) :
        LET c == [This EXCEPT !.fetches = @ (-) SetToBag({hostId})]
        IN  /\ Commit(c)
            /\ last' = Step("fetchDone", hostId, "rejected", c)
    /\ UNCHANGED <<fridaHosts, phase>>

\* An activateInterceptor promise settles.
ActivationSettled ==
    /\ \E pending \in BagToSet(activations), outcome \in {"resolved", "rejected"} :
        LET c0 == [This EXCEPT !.activations = @ (-) SetToBag({pending})]
            c == React(activationSettled(c0, pending, outcome), fridaHosts)
        IN  /\ Commit(c)
            /\ last' = Step(IF pending.kind = "target" THEN "targetActivationDone"
                                                       ELSE "hostActivationDone",
                            pending.id, outcome, c)
    /\ UNCHANGED <<fridaHosts, phase>>

\* The component from its construction on, while it is live.
Next ==
    \/ Mount
    \/ DiscoveryUpdate
    \/ SelectHost
    \/ DeselectHost
    \/ InterceptTarget
    \/ OnSearchChange
    \/ PollTick
    \/ FetchResolved
    \/ FetchRejected
    \/ ActivationSettled

Spec == Init /\ [][Next]_vars

\* The component's whole life: it may be unmounted, after which the host list
\* still changes and the promises in flight still settle.
NextTeardown == Next \/ Unmount

SpecTeardown == Init /\ [][NextTeardown]_vars

\* The steps that read or write the selection, the target list or the
\* requests in flight: all of Next but interceptTarget and onSearchChange.
NextLive ==
    \/ Mount
    \/ DiscoveryUpdate
    \/ SelectHost
    \/ DeselectHost
    \/ PollTick
    \/ FetchResolved
    \/ FetchRejected
    \/ ActivationSettled

\* The live component with its scheduling: the interval timer keeps firing,
\* and the interceptor service keeps answering (a request that is in flight
\* settles, and target fetches do not fail for ever).
SpecLive ==
    /\ Init
    /\ [][NextLive]_vars
    /\ SF_vars(PollTick)
    /\ SF_vars(FetchResolved)
    /\ WF_vars(ActivationSettled)

\* The breakpoint card alone, beside a host selection flow that is not mounted.
InitCard ==
    /\ Init
    /\ fridaHosts = [h \in HostIds |-> Absent]

NextCard ==
    \/ OnMethodChanged
    \/ OnUrlChanged
    \/ OnHeadersChanged

SpecCard == InitCard /\ [][NextCard]_vars

----------------------------------------------------------------------------
(* Claims *)

Marked(id, array) == id \in Range(array)

\* C1: while the component is mounted, a held selected host id always names
\* a host of the current list: when a discovery update drops the selected
\* host, selectedHostId is cleared in that same step, whatever step came
\* before, so no later step sees the dangling id.
C1_AbsentHostResetsSelection ==
    /\ (phase = "mounted" /\ selectedHostId # None) => fridaHosts[selectedHostId] # Absent
    /\ (phase = "mounted" /\ last.op = "discovery" /\ last.id # None /\ last.seen = Absent)
           => (selectedHostId = None /\ SelectedHost(selectedHostId, fridaHosts) = None)

\* C1 witness: a discovery update dropped the host that was selected, and
\* the selection is none.
C1_Witness ==
    /\ phase = "mounted"
    /\ last.op = "discovery" /\ last.id # None /\ last.seen = Absent
    /\ selectedHostId = None

\* C2 (as claimed): after a discovery update that reports the selected host
\* 'unavailable', no selected host id is held, as after deselectHost().
C2_UnavailableHostResetsSelection ==
    (phase = "mounted" /\ last.op = "discovery" /\ last.id # None /\ last.seen = "unavailable")
        => selectedHostId = None

\* C3: selectHost(id) on a host listed 'unavailable' makes no service call,
\* adds no mark and starts no activation; interceptTarget while the held
\* host is 'unavailable' does neither.
C3_UnavailableNeverActivated ==
    [][/\ (last'.op = "selectHost" /\ last'.seen = "unavailable")
            => /\ last'.calls = <<>>
               /\ inProgressHostIds' = inProgressHostIds
               /\ activations' = activations
       /\ (last'.op = "interceptTarget" /\ last'.seen = "unavailable")
            => /\ last'.calls = <<>>
               /\ inProgressTargetIds' = inProgressTargetIds
               /\ activations' = activations]_vars

\* C3 witness: selectHost was called on an 'unavailable' host.
C3_Witness ==
    /\ last.op = "selectHost" /\ last.seen = "unavailable"
    /\ fridaHosts[last.id] = "unavailable"
    /\ selectedHostId = last.id

\* C4 (as claimed): after selectHost(id) on a 'launch-required' or
\* 'setup-required' host the machine is still in NoSelection: no valid
\* selected host, so no target list for that host is shown.
C4_ActivatingSelectKeepsNoSelection ==
    (last.op = "selectHost" /\ last.seen \in {"launch-required", "setup-required"})
        => SelectedHost(selectedHostId, fridaHosts) = None

\* C5: the service calls of selectHost(id) are decided by the listed state
\* of the host: exactly one launch request for 'launch-required', exactly
\* one setup request for 'setup-required', each issued with the id already
\* marked; exactly one target fetch and no request for 'available'; nothing
\* otherwise.
C5_SelectHostRequestMatchesState ==
    last.op = "selectHost" =>
        /\ (last.seen = "launch-required")
              <=> (last.calls = <<Activate(Request("launch", last.id, None), TRUE)>>)
        /\ (last.seen = "setup-required")
              <=> (last.calls = <<Activate(Request("setup", last.id, None), TRUE)>>)
        /\ (last.seen = "available") <=> (last.calls = <<Fetch(last.id)>>)
        /\ (last.seen \in {"unavailable", Absent}) <=> (last.calls = <<>>)
        /\ (last.seen \in {"launch-required", "setup-required"})
              => Marked(last.id, inProgressHostIds)

\* C5 witness: selectHost on a 'setup-required' host issued the setup request.
C5_Witness ==
    /\ last.op = "selectHost" /\ last.seen = "setup-required"
    /\ last.calls = <<Activate(Request("setup", last.id, None), TRUE)>>
    /\ BagIn(Pending("host", last.id), activations)

\* C6: no mark outlives its activations: every marked host or target id has
\* an activation in flight, and right after an activation settles, resolved
\* or rejected, its identifier is not marked.
C6_MarksCleared ==
    /\ \A h \in Range(inProgressHostIds) : BagIn(Pending("host", h), activations)
    /\ \A t \in Range(inProgressTargetIds) : BagIn(Pending("target", t), activations)
    /\ last.op = "hostActivationDone" => ~Marked(last.id, inProgressHostIds)
    /\ last.op = "targetActivationDone" => ~Marked(last.id, inProgressTargetIds)

\* C6 witness: an activation was rejected and the last mark is gone.
C6_Witness ==
    /\ last.op = "hostActivationDone" /\ last.seen = "rejected"
    /\ inProgressHostIds = <<>> /\ inProgressTargetIds = <<>>
    /\ activations = EmptyBag

\* C7: activations of different identifiers do not interfere: a started
\* activation leaves its id marked, and only the settling of an activation
\* of that same id (of that same kind) removes marks of an id.
C7_IndependentMarks ==
    [][/\ \A k \in Range(last'.calls) :
            k.call = "activate" =>
                IF k.request.action = "intercept"
                THEN Marked(k.request.targetId, inProgressTargetIds')
                ELSE Marked(k.request.hostId, inProgressHostIds')
       /\ \A h \in HostIds :
            ~(last'.op = "hostActivationDone" /\ last'.id = h)
                => Count(h, inProgressHostIds') >= Count(h, inProgressHostIds)
       /\ \A t \in TargetIds :
            ~(last'.op = "targetActivationDone" /\ last'.id = t)
                => Count(t, inProgressTargetIds') >= Count(t, inProgressTargetIds)]_vars

\* C7 witness: two targets were activating, the activation of t1 settled and
\* t2 is still marked.
C7_Witness ==
    /\ last.op = "targetActivationDone" /\ last.id = "t1"
    /\ ~Marked("t1", inProgressTargetIds)
    /\ Marked("t2", inProgressTargetIds)
    /\ BagIn(Pending("target", "t2"), activations)

\* C8 (as claimed): an identifier is marked exactly when an activation
\* issued for it has not settled yet.
C8_MarkedIffInFlight ==
    /\ \A h \in HostIds :
         Marked(h, inProgressHostIds) <=> BagIn(Pending("host", h), activations)
    /\ \A t \in TargetIds :
         Marked(t, inProgressTargetIds) <=> BagIn(Pending("target", t), activations)

\* C9 (as claimed): a response that populates the target list belongs to a
\* fetch issued for the host selected when it arrives.
C9_ResponseForSelectedHostOnly ==
    (last.op = "fetchDone" /\ last.seen = "resolved" /\ fridaTargets # <<>>)
        => selectedHostId = last.id

\* C10 (as claimed): in the state deselectHost() leaves, called by the user
\* or by the reaction to the selected host leaving the list, no targets are
\* held.
C10_DeselectDiscardsTargets ==
    (phase = "mounted" /\
        (last.op = "deselectHost" \/
            (last.op = "discovery" /\ last.id # None /\ last.seen = Absent)))
        => fridaTargets = <<>>

\* A valid selected host, written out: an id is held and the list has a host
\* of that id in a state other than 'unavailable'.
HostSelected == selectedHostId # None /\ fridaHosts[selectedHostId] \notin {Absent, "unavailable"}

\* C11: before the mount no host is selected; right after it a host is
\* selected iff the list holds exactly one host and that host is
\* 'available', and then it is that host and every call made was a target
\* fetch for it (at least one); otherwise nothing is selected and no call,
\* activation or fetch, was made.
C11_AutoSelectAtMount ==
    /\ phase = "constructed" => (selectedHostId = None /\ activations = EmptyBag /\ fetches = EmptyBag)
    /\ last.op = "mount" =>
        LET single == {h \in HostIds : fridaHosts[h] # Absent /\ \A g \in HostIds \ {h} : fridaHosts[g] = Absent}
            auto == \E h \in single : fridaHosts[h] = "available"
        IN  /\ auto <=> selectedHostId # None
            /\ auto => /\ selectedHostId \in single
                       /\ HostSelected
                       /\ last.calls # <<>>
                       /\ \A k \in Range(last.calls) : k = Fetch(selectedHostId)
                       /\ BagIn(selectedHostId, fetches)
            /\ ~auto => /\ last.calls = <<>>
                        /\ activations = EmptyBag /\ fetches = EmptyBag
                        /\ inProgressHostIds = <<>>

\* C11 witness: the component mounted with the single 'available' host A and
\* selected it, with a fetch for A issued.
C11_Witness ==
    /\ last.op = "mount" /\ selectedHostId = "A"
    /\ fridaHosts["B"] = Absent
    /\ Fetch("A") \in Range(last.calls)

\* C12: interceptTarget(targetId) without a valid selected host makes no call
\* and adds no mark; with one it appends targetId to the marks and makes
\* exactly one call, the request {intercept, id of the selected host,
\* targetId}, with the mark already set. The settling of that request leaves
\* the selected host id and the target list as they were.
C12_InterceptOnlyWithHost ==
    [][/\ last'.op = "interceptTarget" =>
            IF HostSelected
            THEN /\ last'.calls = <<Activate(Request("intercept", selectedHostId, last'.id), TRUE)>>
                 /\ inProgressTargetIds' = Append(inProgressTargetIds, last'.id)
                 /\ activations' = activations (+) SetToBag({Pending("target", last'.id)})
            ELSE /\ last'.calls = <<>>
                 /\ inProgressTargetIds' = inProgressTargetIds
                 /\ activations' = activations
       /\ last'.op = "targetActivationDone" =>
            /\ selectedHostId' = selectedHostId
            /\ fridaTargets' = fridaTargets]_vars

\* C12 witness: interceptTarget("t1") with host A selected issued the request.
C12_Witness ==
    /\ last.op = "interceptTarget"
    /\ last.calls = <<Activate(Request("intercept", "A", "t1"), TRUE)>>
    /\ selectedHostId = "A"
    /\ Marked("t1", inProgressTargetIds)

\* C13: every edit that passes a snapshot to onChange passes the snapshot that
\* was current with only the targeted field replaced, and the store holds it
\* afterwards: setMethod changes at most method, setUrl at most url,
\* setHeaders at most headers, and after the edit the targeted field holds
\* the value of the edit.
C13_EditsPreserveOtherFields ==
    [][/\ \A i \in 1..Len(edit'.emitted) :
            /\ edit'.op = "setMethod" =>
                   /\ edit'.emitted[i].url = inProgressResult.url
                   /\ edit'.emitted[i].headers = inProgressResult.headers
                   /\ edit'.emitted[i].method = edit'.arg
            /\ edit'.op = "setUrl" =>
                   /\ edit'.emitted[i].method = inProgressResult.method
                   /\ edit'.emitted[i].headers = inProgressResult.headers
                   /\ edit'.emitted[i].url = edit'.arg
            /\ edit'.op = "setHeaders" =>
                   /\ edit'.emitted[i].method = inProgressResult.method
                   /\ edit'.emitted[i].url = inProgressResult.url
                   /\ edit'.emitted[i].headers = headersArrayToHeaders(edit'.arg)
       /\ edit'.op = "setMethod" =>
              /\ inProgressResult'.method = edit'.arg
              /\ inProgressResult'.url = inProgressResult.url
              /\ inProgressResult'.headers = inProgressResult.headers
       /\ edit'.op = "setUrl" =>
              /\ inProgressResult'.url = edit'.arg
              /\ inProgressResult'.method = inProgressResult.method
              /\ inProgressResult'.headers = inProgressResult.headers
       /\ edit'.op = "setHeaders" =>
              /\ inProgressResult'.headers = headersArrayToHeaders(edit'.arg)
              /\ inProgressResult'.method = inProgressResult.method
              /\ inProgressResult'.url = inProgressResult.url]_vars

\* C13 witness: after edits of all three fields, a setUrl edit passed on a
\* snapshot that still carries the edited method and headers.
C13_Witness ==
    /\ edit.op = "setUrl" /\ Len(edit.emitted) = 1
    /\ inProgressResult = edit.emitted[1]
    /\ inProgressResult.url = "http://b/"
    /\ inProgressResult.method = "PURGE"
    /\ inProgressResult.headers = headersArrayToHeaders(<<<<"b", "1">>, <<"a", "2">>>>)

\* C14: a setMethod with the method the snapshot already holds passes nothing
\* to onChange and leaves the snapshot as it was; with any other method it
\* passes exactly one snapshot to onChange.
C14_SameMethodIsNoOp ==
    [][edit'.op = "setMethod" =>
          IF edit'.arg = inProgressResult.method
          THEN /\ edit'.emitted = <<>>
               /\ inProgressResult' = inProgressResult
          ELSE Len(edit'.emitted) = 1]_vars

\* C14 witness: a setMethod with the current method passed nothing on.
C14_Witness ==
    /\ edit.op = "setMethod" /\ edit.arg = "POST" /\ edit.emitted = <<>>
    /\ inProgressResult.method = "POST"

\* C15: once the component is unmounted, no step issues a target fetch and no
\* step changes the target list, the selected host id or either list of
\* in-progress identifiers.
C15_NoUpdateAfterUnmount ==
    [][phase = "unmounted" =>
          /\ \A h \in HostIds : CopiesIn(h, fetches') <= CopiesIn(h, fetches)
          /\ UNCHANGED <<fridaTargets, selectedHostId, inProgressHostIds, inProgressTargetIds>>]_vars

\* C16 (steps): a poll tick with a valid selected host H issues exactly one
\* fetch, for H, and leaves the target list alone; a poll tick with no valid
\* selected host issues no fetch and empties the target list; a fetch that
\* resolves replaces the target list by the response, an undefined response
\* by the empty list.
C16_PollStep ==
    /\ last'.op = "poll" =>
           IF HostSelected
           THEN /\ last'.calls = <<Fetch(selectedHostId)>>
                /\ fetches' = fetches (+) SetToBag({selectedHostId})
                /\ fridaTargets' = fridaTargets
           ELSE /\ last'.calls = <<>>
                /\ fetches' = fetches
                /\ fridaTargets' = <<>>
    /\ last'.op = "fetchDone" =>
           /\ last'.calls = <<>>
           /\ last'.seen = "resolved" => fridaTargets' \in {r.targets : r \in Results}
           /\ last'.seen = "undefined" => fridaTargets' = <<>>
           /\ last'.seen = "rejected" => fridaTargets' = fridaTargets

\* A fetch for host h has just been answered and the target list is its response.
Answered(h) == last.op = "fetchDone" /\ last.id = h /\ last.seen # "rejected"

C17_PollingAndActivationIndependent ==
    [][/\ (\/ last'.op \in {"discovery", "poll", "fetchDone", "deselectHost"}
           \/ last'.op = "selectHost" /\ last'.seen = "available")
          => UNCHANGED <<inProgressHostIds, inProgressTargetIds, activations>>
       /\ last'.op \in {"hostActivationDone", "targetActivationDone"}
          => UNCHANGED <<selectedHostId, fridaTargets, searchInput, fetches>>]_vars

\* C17 witness: the host was deselected while an activation of a host and an
\* activation of a target were in flight, and both are still marked.
C17_Witness ==
    /\ last.op = "deselectHost"
    /\ inProgressHostIds # <<>> /\ inProgressTargetIds # <<>>
    /\ BagCardinality(activations) = 2

\* The same letter, in either case.
SameLetter(x, y) == x = y \/ {x, y} \in {{"a", "A"}, {"b", "B"}, {"c", "C"}}

\* search occurs in name at some position, letter by letter, whatever the case.
ContainsIgnoringCase(name, search) ==
    \E offset \in 0..(Len(name) - Len(search)) :
        \A j \in 1..Len(search) : SameLetter(name[offset + j], search[j])

\* C18: a change of the search input leaves the fetched target list, the
\* selected host id and both arrays of in-progress identifiers as they were,
\* and after every step the targets shown are exactly the fetched targets, in
\* their order, whose name contains the search input whatever the case of
\* the letters (all of them when the input is empty).
C18_SearchFiltersDisplayOnly ==
    [][/\ last'.op = "searchChange" =>
              UNCHANGED <<fridaTargets, selectedHostId, inProgressHostIds,
                          inProgressTargetIds, activations, fetches>>
       /\ filteredTargets(fridaTargets', searchInput')
              = SelectSeq(fridaTargets', LAMBDA t : ContainsIgnoringCase(t.name, searchInput'))
       /\ searchInput' = <<>> => filteredTargets(fridaTargets', searchInput') = fridaTargets']_vars

\* C18 witness: with host A selected and targets t1 ("Ab") and t2 ("c")
\* fetched, the search input became "aB" and only t1 is shown.
C18_Witness ==
    /\ last.op = "searchChange" /\ searchInput = <<"a", "B">>
    /\ HostSelected /\ fridaTargets = <<T1, T2>>
    /\ filteredTargets(fridaTargets, searchInput) = <<T1>>

\* C19: a discovery update never takes the component from having no valid
\* selected host to having one: only selectHost does.
C19_DiscoveryNeverSelects ==
    [][last'.op = "discovery" /\ ~HostSelected => ~HostSelected']_vars

\* C20: whenever a host is validly selected, the targets held were fetched
\* for that host, and every intercept request issued by interceptTarget names
\* the host its target list was fetched for.
C20_TargetsOfSelectedHost ==
    /\ (HostSelected /\ fridaTargets # <<>>) => targetsOwner = selectedHostId
    /\ (last.op = "interceptTarget" /\ last.calls # <<>> /\ fridaTargets # <<>>) =>
           \A i \in 1..Len(last.calls) : last.calls[i].request.hostId = targetsOwner

====
